---- MODULE Spec2Model ----
(***************************************************************************)
(* The vector store of the retrieval-augmented chat backend: a persistent  *)
(* engine (LanceDB, reached through dynamic import) with an in-process     *)
(* linear-scan fallback.  The module state of the store (lancedb,          *)
(* lancedbLoadError, vectordbAvailable, useInMemoryStore, db, table,       *)
(* inMemoryStore) is modelled together with the engine's collection on     *)
(* disk and with the async calls in flight: every `await` of the source is *)
(* a point where another call may run.                                     *)
(*                                                                         *)
(* A document is modelled by its id and its embedding; text and metadata   *)
(* are copied through unchanged by every operation and are left out.       *)
(* Numbers are exact: a cosine score dot/sqrt(nn) is the pair (dot, nn).   *)
(***************************************************************************)
EXTENDS Integers, Sequences, FiniteSets, TLC

\* ---------------------------------------------------------------- bounds
MaxCalls == 3

MaxLen == 3

\* default value of search's topK parameter
DefaultTopK == 3

Tasks == {1, 2}

Doc(i, e) == [id |-> i, embedding |-> e]

\* documents submitted by callers in the store model
Docs == {Doc(1, <<1, 0>>), Doc(2, <<0, 2>>)}

Queries == {<<1, 0>>, <<0, 2>>}

TopKs == {1, DefaultTopK}

SeqsUpTo(S, n) == UNION {[1..m -> S] : m \in 0..n}

\* the batches callers submit: empty, one document, two documents
Batches == {<<>>, <<Doc(1, <<1, 0>>)>>, <<Doc(2, <<0, 2>>)>>,
            <<Doc(1, <<1, 0>>), Doc(2, <<0, 2>>)>>}

\* ------------------------------------------------------- similarity scorer
RECURSIVE SumProd(_, _, _)
SumProd(a, b, i) == IF i = 0 THEN 0 ELSE a[i] * b[i] + SumProd(a, b, i - 1)

Abs(x) == IF x < 0 THEN -x ELSE x

\* the number s is represented exactly as [dot, nn] with s = dot / sqrt(nn)
Score(d, n) == [dot |-> d, nn |-> n]

ZeroScore == Score(0, 1)

\* sign(s) * s^2 = dot*|dot| / nn is monotonic in s: compare by cross-multiplying
ScoreLess(s, t) == s.dot * Abs(s.dot) * t.nn < t.dot * Abs(t.dot) * s.nn

ScoreEq(s, t) == s.dot * Abs(s.dot) * t.nn = t.dot * Abs(t.dot) * s.nn

ScoreIsOne(s) == ScoreEq(s, Score(1, 1))

\* the denominator without the square roots
cosineSimilarityNoSqrt(vecA, vecB) ==
    IF Len(vecA) # Len(vecB) THEN ZeroScore
    ELSE LET n == Len(vecA)
             normA == SumProd(vecA, vecA, n)
             normB == SumProd(vecB, vecB, n)
         IN  IF normA * normB = 0 THEN ZeroScore
             ELSE Score(SumProd(vecA, vecB, n), normA * normB * normA * normB)

\* `number` is a double: a result beyond the largest finite value overflows
\* to an infinity (the range is scaled down here; rounding is not modelled)
FloatMax == 8

PosInf == FloatMax + 1

NegInf == -PosInf

NaN == FloatMax + 2

IsFinite(x) == -FloatMax <= x /\ x <= FloatMax

Overflow(x) == IF x > FloatMax THEN PosInf ELSE IF x < -FloatMax THEN NegInf ELSE x

FMul(x, y) ==
    IF x = NaN \/ y = NaN THEN NaN
    ELSE IF IsFinite(x) /\ IsFinite(y) THEN Overflow(x * y)
    ELSE IF x = 0 \/ y = 0 THEN NaN
    ELSE IF (x > 0) = (y > 0) THEN PosInf ELSE NegInf

FAdd(x, y) ==
    IF x = NaN \/ y = NaN THEN NaN
    ELSE IF IsFinite(x) /\ IsFinite(y) THEN Overflow(x + y)
    ELSE IF IsFinite(x) THEN y
    ELSE IF IsFinite(y) \/ x = y THEN x
    ELSE NaN

\* the loop of cosineSimilarity: sum += a[i] * b[i], in index order
RECURSIVE FSumProd(_, _, _)
FSumProd(a, b, i) ==
    IF i = 0 THEN 0 ELSE FAdd(FSumProd(a, b, i - 1), FMul(a[i], b[i]))

\* NaN and the infinities as scores: 0/sqrt(0), 1/sqrt(0), -1/sqrt(0)
NaNScore == Score(0, 0)

InfScore(sign) == Score(sign, 0)

cosineSimilarity(vecA, vecB) ==
    IF Len(vecA) # Len(vecB) THEN ZeroScore
    ELSE LET n == Len(vecA)
             dotProduct == FSumProd(vecA, vecB, n)
             normA == FSumProd(vecA, vecA, n)
             normB == FSumProd(vecB, vecB, n)
         IN  IF IsFinite(normA) /\ IsFinite(normB)
             THEN \* denominator = sqrt(normA) * sqrt(normB) is 0 iff normA * normB is
                  IF normA * normB = 0 THEN ZeroScore
                  ELSE IF ~IsFinite(dotProduct)
                  THEN (IF dotProduct = NaN THEN NaNScore
                        ELSE InfScore(IF dotProduct > 0 THEN 1 ELSE -1))
                  ELSE Score(dotProduct, normA * normB)
             \* a norm overflowed: the denominator is Infinity, or 0 * Infinity
             \* = NaN, which is not === 0
             ELSE IF normA = 0 \/ normB = 0 \/ ~IsFinite(dotProduct) THEN NaNScore
             ELSE ZeroScore

\* ------------------------------------------------------ in-memory backend
\* Array.prototype.slice(start, end) with relative (negative) indices
Slice(s, start, end) ==
    LET n == Len(s)
        rel(i) == IF i < 0 THEN (IF n + i < 0 THEN 0 ELSE n + i)
                  ELSE (IF i > n THEN n ELSE i)
        from == rel(start)
        to == rel(end)
    IN  IF to <= from THEN <<>> ELSE SubSeq(s, from + 1, to)

InsertDescUnstable(s, x) ==
    LET k == Cardinality({i \in 1..Len(s) : ScoreLess(x.score, s[i].score)})
    IN  SubSeq(s, 1, k) \o <<x>> \o SubSeq(s, k + 1, Len(s))

\* x goes behind every element that does not score less than it
InsertDesc(s, x) ==
    LET k == Cardinality({i \in 1..Len(s) : ~ScoreLess(s[i].score, x.score)})
    IN  SubSeq(s, 1, k) \o <<x>> \o SubSeq(s, k + 1, Len(s))

SortOmitted(s) == s

\* Array.prototype.sort((a, b) => b.score - a.score): descending and stable
RECURSIVE SortByScore(_)
SortByScore(s) ==
    IF Len(s) <= 1 THEN s
    ELSE InsertDesc(SortByScore(SubSeq(s, 1, Len(s) - 1)), s[Len(s)])

SearchInMemory(store, queryEmbedding, topK) ==
    IF Len(store) = 0 THEN <<>>
    ELSE LET scoredDocs == [i \in 1..Len(store) |->
                 [id |-> store[i].id,
                  score |-> cosineSimilarity(queryEmbedding, store[i].embedding)]]
         IN  Slice(SortByScore(scoredDocs), 0, topK)

\* ------------------------------------------------ persistent engine (LanceDB)
\* the engine's default metric: squared L2 distance
Distance(a, b) ==
    IF Len(a) # Len(b) THEN 0
    ELSE SumProd(a, a, Len(a)) - 2 * SumProd(a, b, Len(a)) + SumProd(b, b, Len(a))

\* a row the engine returns without _distance
NoDistance == -1

\* rows nearest first (stable), the first k of them
RECURSIVE NearestRows(_, _)
NearestRows(rows, q) ==
    IF Len(rows) <= 1 THEN rows
    ELSE LET front == NearestRows(SubSeq(rows, 1, Len(rows) - 1), q)
             x == rows[Len(rows)]
             k == Cardinality({i \in 1..Len(front) :
                      Distance(q, front[i].embedding) <= Distance(q, x.embedding)})
         IN  SubSeq(front, 1, k) \o <<x>> \o SubSeq(front, k + 1, Len(front))

\* table.search(q).limit(topK).execute(): rows with _distance (absent: -1)
EngineSearch(rows, q, topK, withDistance) ==
    LET near == NearestRows(rows, q)
        n == IF topK < 0 THEN 0 ELSE IF topK > Len(near) THEN Len(near) ELSE topK
    IN  [i \in 1..n |->
            [id |-> near[i].id,
             distance |-> IF withDistance THEN Distance(q, near[i].embedding)
                          ELSE NoDistance]]

\* score: r._distance ? 1 - r._distance : 0   (0 and undefined are both falsy)
DistanceToScore(d) == IF d # NoDistance /\ d # 0 THEN Score(1 - d, 1) ELSE ZeroScore

MapResults(results) ==
    [i \in 1..Len(results) |->
        [id |-> results[i].id, score |-> DistanceToScore(results[i].distance)]]

\* ----------------------------------------------------------------- state
VARIABLES
    moduleOK,           \* environment: import('vectordb') succeeds
    lancedb,            \* the loaded module is cached
    lancedbLoadError,   \* a load error is cached
    vectordbAvailable,
    useInMemoryStore,
    db,                 \* connection handle (the number of the call that
                        \* connected), 0 = null
    table,              \* collection handle, 0 = null
    inMemoryStore,
    disk,               \* the engine's collection 'news_articles' in DB_DIR
    task,               \* the async calls in flight
    ret,                \* the call that returned in the last step, if any
    calls,              \* calls started so far
    connectRaised,       \* the engine's connect has thrown
    client,             \* redisClient.ts `client`, with its connection state
    sessions,           \* Redis: the history stored under session:<id>
    req,                \* the HTTP requests in flight
    resp,               \* the response sent in the last step
    reqs,               \* requests received so far
    log,                \* per session: the turns of the chats answered 200
                        \* since the last answered DELETE
    cleared,            \* per session: a DELETE was answered and no chat begun
                        \* after it has completed
    isInitialized,      \* part_002: the flag of the lazy initializeSystem
    boot,               \* part_002: what the body of initializeSystem awaits
    bodies              \* part_002: how often that body was entered

storeVars == <<moduleOK, lancedb, lancedbLoadError, vectordbAvailable, useInMemoryStore,
               db, table, inMemoryStore, disk, task, ret, calls, connectRaised>>

bootVars == <<isInitialized, boot, bodies>>

serverVars == <<client, sessions, req, resp, reqs, log, cleared, bootVars>>

vars == <<storeVars, serverVars>>

Mode == IF useInMemoryStore THEN "InMemory"
        ELSE IF db # 0 THEN "Persistent" ELSE "Uninitialized"

NoTable == [exists |-> FALSE, rows |-> <<>>]

Idle == [op |-> "idle", pc |-> "idle", nested |-> FALSE, docs |-> <<>>, q |-> <<>>,
         k |-> 0, mod |-> FALSE, h |-> 0, fail |-> "none",
         mode0 |-> "Uninitialized", alone |-> TRUE, raised |-> FALSE,
         rows |-> <<>>, result |-> <<>>]

NoRet == Idle

\* a call begins: what it was given and the state it found
Begin(op, docs, q, k) ==
    [Idle EXCEPT !.op = op, !.docs = docs, !.q = q, !.k = k, !.mode0 = Mode,
                 !.h = calls + 1, !.alone = \A u \in Tasks : task[u].op = "idle"]

\* ------------------------------------------------------------- the server
SessionIds == {1}

\* a request slot that holds no request; a step that sends no response
NoReq == [op |-> "idle", pc |-> "idle", sid |-> 0, msg |-> "", rc |-> FALSE,
          history |-> <<>>, stale |-> FALSE]

NoResp == [op |-> "none", status |-> 0, sid |-> 0, rc |-> FALSE,
           history |-> <<>>, given |-> <<>>]

Reqs == {1, 2}

\* the process has loaded its modules: `client` is null and initRedis has not
\* run, Redis holds no session, no request has arrived
ServerStart ==
    /\ client = "unset"
    /\ sessions = [s \in SessionIds |-> <<>>]
    /\ req = [r \in Reqs |-> NoReq]
    /\ resp = NoResp
    /\ reqs = 0
    /\ log = [s \in SessionIds |-> <<>>]
    /\ cleared = [s \in SessionIds |-> FALSE]
    /\ isInitialized = FALSE
    /\ boot = "idle"
    /\ bodies = 0

Init ==
    /\ moduleOK \in BOOLEAN
    /\ lancedb = FALSE
    /\ lancedbLoadError = FALSE
    /\ vectordbAvailable = FALSE
    /\ useInMemoryStore = FALSE
    /\ db = 0
    /\ table = 0
    /\ inMemoryStore = <<>>
    /\ disk \in {NoTable, [exists |-> TRUE, rows |-> <<Doc(1, <<1, 0>>)>>]}
    /\ task = [t \in Tasks |-> Idle]
    /\ ret = NoRet
    /\ calls = 0
    /\ connectRaised = FALSE
    /\ ServerStart

IsIdle(t) == task[t].op = "idle"

\* a call takes the lowest free slot
CanCall(t) == IsIdle(t) /\ calls < MaxCalls /\ \A u \in Tasks : u < t => ~IsIdle(u)

\* the call of task t returns to its caller
Return(t, r) ==
    /\ task' = [task EXCEPT ![t] = Idle]
    /\ ret' = [r EXCEPT !.pc = "returned"]
    /\ UNCHANGED serverVars

Suspend(t, r) ==
    /\ task' = [task EXCEPT ![t] = r]
    /\ ret' = NoRet
    /\ UNCHANGED serverVars

\* ------------------------------------------------------- initVectorStore
\* loadLanceDB up to its first await: the cached module, the cached error,
\* or the dynamic import is started
EnterInit(t, r) ==
    /\ Suspend(t, IF lancedb THEN [r EXCEPT !.pc = "loaded", !.mod = TRUE]
                  ELSE IF lancedbLoadError THEN [r EXCEPT !.pc = "loaded", !.mod = FALSE]
                  ELSE [r EXCEPT !.pc = "importing"])
    /\ UNCHANGED <<moduleOK, lancedb, lancedbLoadError, vectordbAvailable,
                   useInMemoryStore, db, table, inMemoryStore, disk, connectRaised>>

\* initVectorStore is done: its caller is addDocuments (which resumes at its
\* routing) or the outside
InitReturns(t, r) ==
    IF r.nested THEN Suspend(t, [r EXCEPT !.pc = "route"]) ELSE Return(t, r)

\* the catch block of initVectorStore
InitCatch(t, r) ==
    /\ vectordbAvailable' = FALSE
    /\ db' = 0
    /\ table' = 0
    /\ useInMemoryStore' = TRUE
    /\ InitReturns(t, r)

initVectorStore(t) ==
    /\ CanCall(t)
    /\ calls' = calls + 1
    /\ EnterInit(t, Begin("init", <<>>, <<>>, 0))

\* the dynamic import settles
ImportDone(t) ==
    /\ task[t].pc = "importing"
    /\ IF moduleOK
       THEN /\ lancedb' = TRUE
            /\ vectordbAvailable' = TRUE
            /\ UNCHANGED lancedbLoadError
       ELSE /\ lancedbLoadError' = TRUE
            /\ vectordbAvailable' = FALSE
            /\ UNCHANGED lancedb
    /\ Suspend(t, [task[t] EXCEPT !.pc = "loaded", !.mod = moduleOK])
    /\ UNCHANGED <<moduleOK, useInMemoryStore, db, table, inMemoryStore, disk, calls, connectRaised>>

\* after `await loadLanceDB()`: the availability check, then connect is called
\* (creating DB_DIR = '/tmp/lancedb' with recursive mkdir is taken to succeed)
AfterLoad(t) ==
    /\ task[t].pc = "loaded"
    /\ \/ /\ ~task[t].mod \/ ~vectordbAvailable
          /\ useInMemoryStore' = TRUE
          /\ InitReturns(t, [task[t] EXCEPT !.fail = "module"])
          /\ UNCHANGED <<vectordbAvailable, db, table>>
       \/ /\ task[t].mod /\ vectordbAvailable
          /\ Suspend(t, [task[t] EXCEPT !.pc = "connecting"])
          /\ UNCHANGED <<vectordbAvailable, db, table, useInMemoryStore>>
    /\ UNCHANGED <<moduleOK, lancedb, lancedbLoadError, inMemoryStore, disk, calls, connectRaised>>

\* connect settles; on success db is set and db.tableNames() is called
ConnectDone(t) ==
    /\ task[t].pc = "connecting"
    /\ \/ /\ db' = task[t].h
          /\ Suspend(t, [task[t] EXCEPT !.pc = "listing"])
          /\ UNCHANGED <<vectordbAvailable, table, useInMemoryStore, connectRaised>>
       \/ /\ InitCatch(t, [task[t] EXCEPT !.fail = "connect"])
          /\ connectRaised' = TRUE
    /\ UNCHANGED <<moduleOK, lancedb, lancedbLoadError, inMemoryStore, disk, calls>>

\* tableNames settles; the collection is opened if it is listed
ListDone(t) ==
    /\ task[t].pc = "listing"
    /\ \/ /\ disk.exists /\ db # 0
          /\ Suspend(t, [task[t] EXCEPT !.pc = "opening"])
          /\ UNCHANGED <<vectordbAvailable, db, table, useInMemoryStore>>
       \/ \* db was reset to null meanwhile: db.openTable is a TypeError
          /\ disk.exists /\ db = 0
          /\ InitCatch(t, [task[t] EXCEPT !.fail = "nulldb"])
       \/ /\ ~disk.exists
          /\ useInMemoryStore' = FALSE
          /\ InitReturns(t, task[t])
          /\ UNCHANGED <<vectordbAvailable, db, table>>
       \/ InitCatch(t, [task[t] EXCEPT !.fail = "list"])
    /\ UNCHANGED <<moduleOK, lancedb, lancedbLoadError, inMemoryStore, disk, calls, connectRaised>>

\* openTable settles
OpenDone(t) ==
    /\ task[t].pc = "opening"
    /\ \/ /\ disk.exists
          /\ table' = task[t].h
          /\ useInMemoryStore' = FALSE
          /\ InitReturns(t, task[t])
          /\ UNCHANGED <<vectordbAvailable, db>>
       \/ InitCatch(t, [task[t] EXCEPT !.fail = "open"])
    /\ UNCHANGED <<moduleOK, lancedb, lancedbLoadError, inMemoryStore, disk, calls, connectRaised>>

\* ---------------------------------------------------------- addDocuments
\* the documents of docs whose id the store does not hold yet
RECURSIVE NewIds(_, _)
NewIds(store, docs) ==
    IF docs = <<>> THEN <<>>
    ELSE IF \E i \in 1..Len(store) : store[i].id = docs[1].id
         THEN NewIds(store, Tail(docs))
         ELSE <<docs[1]>> \o NewIds(store \o <<docs[1]>>, Tail(docs))

\* the in-memory push skipping ids already stored
AddRouteDedup(t, r) ==
    IF useInMemoryStore \/ db = 0
    THEN /\ inMemoryStore' = inMemoryStore \o NewIds(inMemoryStore, r.docs)
         /\ Return(t, r)
    ELSE /\ Suspend(t, [r EXCEPT !.pc = IF table = 0 THEN "creating" ELSE "adding"])
         /\ UNCHANGED inMemoryStore

\* from `if (useInMemoryStore || !db)` on: the in-memory push, or the call of
\* createTable / table.add
AddRoute(t, r) ==
    IF useInMemoryStore \/ db = 0
    THEN /\ inMemoryStore' = inMemoryStore \o r.docs
         /\ Return(t, r)
    ELSE /\ Suspend(t, [r EXCEPT !.pc = IF table = 0 THEN "creating" ELSE "adding"])
         /\ UNCHANGED inMemoryStore

\* addDocuments without its empty-batch return
addDocumentsNoEmptyCheck(t, documents) ==
    /\ CanCall(t)
    /\ Len(inMemoryStore) + Len(documents) <= MaxLen
    /\ Len(disk.rows) + Len(documents) <= MaxLen
    /\ calls' = calls + 1
    /\ LET r == Begin("add", documents, <<>>, 0)
       IN  IF db = 0 /\ ~useInMemoryStore
           THEN /\ Suspend(t, IF lancedb
                                 THEN [r EXCEPT !.nested = TRUE, !.pc = "loaded", !.mod = TRUE]
                              ELSE IF lancedbLoadError
                                 THEN [r EXCEPT !.nested = TRUE, !.pc = "loaded"]
                              ELSE [r EXCEPT !.nested = TRUE, !.pc = "importing"])
                /\ UNCHANGED inMemoryStore
           ELSE AddRoute(t, r)
    /\ UNCHANGED <<moduleOK, lancedb, lancedbLoadError, vectordbAvailable,
                   useInMemoryStore, db, table, disk, connectRaised>>

addDocuments(t, documents) ==
    /\ CanCall(t)
    /\ Len(inMemoryStore) + Len(documents) <= MaxLen
    /\ Len(disk.rows) + Len(documents) <= MaxLen
    /\ calls' = calls + 1
    /\ LET r == Begin("add", documents, <<>>, 0)
       IN  IF Len(documents) = 0
           THEN /\ Return(t, r)
                /\ UNCHANGED inMemoryStore
           ELSE IF db = 0 /\ ~useInMemoryStore
           THEN /\ Suspend(t, IF lancedb
                                 THEN [r EXCEPT !.nested = TRUE, !.pc = "loaded", !.mod = TRUE]
                              ELSE IF lancedbLoadError
                                 THEN [r EXCEPT !.nested = TRUE, !.pc = "loaded"]
                              ELSE [r EXCEPT !.nested = TRUE, !.pc = "importing"])
                /\ UNCHANGED inMemoryStore
           ELSE AddRoute(t, r)
    /\ UNCHANGED <<moduleOK, lancedb, lancedbLoadError, vectordbAvailable,
                   useInMemoryStore, db, table, disk, connectRaised>>

\* `await initVectorStore()` inside addDocuments resumes
AddAfterInit(t) ==
    /\ task[t].pc = "route"
    /\ AddRoute(t, task[t])
    /\ UNCHANGED <<moduleOK, lancedb, lancedbLoadError, vectordbAvailable,
                   useInMemoryStore, db, table, disk, calls, connectRaised>>

\* db.createTable settles; a failure is logged and the call returns
CreateDone(t) ==
    /\ task[t].pc = "creating"
    /\ \/ /\ ~disk.exists
          /\ disk' = [exists |-> TRUE, rows |-> task[t].docs]
          /\ table' = task[t].h
          /\ Return(t, task[t])
       \/ /\ Return(t, [task[t] EXCEPT !.fail = "create"])
          /\ UNCHANGED <<disk, table>>
    /\ UNCHANGED <<moduleOK, lancedb, lancedbLoadError, vectordbAvailable,
                   useInMemoryStore, db, inMemoryStore, calls, connectRaised>>

\* table.add settling with no catch around it: a failure leaves the call
AddDoneRethrows(t) ==
    /\ task[t].pc = "adding"
    /\ \/ /\ disk.exists
          /\ disk' = [disk EXCEPT !.rows = @ \o task[t].docs]
          /\ Return(t, task[t])
       \/ /\ Return(t, [task[t] EXCEPT !.fail = "add", !.raised = TRUE])
          /\ UNCHANGED disk
    /\ UNCHANGED <<moduleOK, lancedb, lancedbLoadError, vectordbAvailable,
                   useInMemoryStore, db, table, inMemoryStore, calls, connectRaised>>

\* table.add settles; a failure is logged and the call returns
AddDone(t) ==
    /\ task[t].pc = "adding"
    /\ \/ /\ disk.exists
          /\ disk' = [disk EXCEPT !.rows = @ \o task[t].docs]
          /\ Return(t, task[t])
       \/ /\ Return(t, [task[t] EXCEPT !.fail = "add"])
          /\ UNCHANGED disk
    /\ UNCHANGED <<moduleOK, lancedb, lancedbLoadError, vectordbAvailable,
                   useInMemoryStore, db, table, inMemoryStore, calls, connectRaised>>

\* ---------------------------------------------------------------- search
SearchCatchRethrows(r) == [r EXCEPT !.fail = "search", !.raised = TRUE]

\* the catch block of search: the error is logged, the result is []
SearchCatch(r) == [r EXCEPT !.fail = "search", !.result = <<>>]

\* search raising when Persistent mode has no collection handle yet
searchNoTableRaises(t, queryEmbedding, topK) ==
    /\ CanCall(t)
    /\ calls' = calls + 1
    /\ LET r == Begin("search", <<>>, queryEmbedding, topK)
       IN  IF useInMemoryStore
           THEN Return(t, [r EXCEPT !.result =
                               SearchInMemory(inMemoryStore, queryEmbedding, topK)])
           ELSE IF table = 0
           THEN Return(t, [r EXCEPT !.fail = "search", !.raised = TRUE])
           ELSE Suspend(t, [r EXCEPT !.pc = "searching"])
    /\ UNCHANGED <<moduleOK, lancedb, lancedbLoadError, vectordbAvailable,
                   useInMemoryStore, db, table, inMemoryStore, disk, connectRaised>>

\* the store reordered by score against q, as an in-place sort would leave it
SortedInPlace(store, q) ==
    LET scored == [i \in 1..Len(store) |->
                      [id |-> i, score |-> cosineSimilarity(q, store[i].embedding)]]
        sorted == SortByScore(scored)
    IN  [i \in 1..Len(store) |-> store[sorted[i].id]]

\* search sorting inMemoryStore itself instead of a mapped copy
searchSortsInPlace(t, queryEmbedding, topK) ==
    /\ CanCall(t)
    /\ calls' = calls + 1
    /\ LET r == Begin("search", <<>>, queryEmbedding, topK)
       IN  IF useInMemoryStore \/ table = 0
           THEN /\ Return(t, [r EXCEPT !.result =
                                 SearchInMemory(inMemoryStore, queryEmbedding, topK)])
                /\ inMemoryStore' = SortedInPlace(inMemoryStore, queryEmbedding)
           ELSE /\ Suspend(t, [r EXCEPT !.pc = "searching"])
                /\ UNCHANGED inMemoryStore
    /\ UNCHANGED <<moduleOK, lancedb, lancedbLoadError, vectordbAvailable,
                   useInMemoryStore, db, table, disk, connectRaised>>

search(t, queryEmbedding, topK) ==
    /\ CanCall(t)
    /\ calls' = calls + 1
    /\ LET r == Begin("search", <<>>, queryEmbedding, topK)
       IN  IF useInMemoryStore \/ table = 0
           THEN Return(t, [r EXCEPT !.result =
                               SearchInMemory(inMemoryStore, queryEmbedding, topK)])
           ELSE Suspend(t, [r EXCEPT !.pc = "searching"])
    /\ UNCHANGED <<moduleOK, lancedb, lancedbLoadError, vectordbAvailable,
                   useInMemoryStore, db, table, inMemoryStore, disk, connectRaised>>

\* the engine's query settles: rows are mapped to results, a failure gives []
SearchDone(t) ==
    /\ task[t].pc = "searching"
    /\ \/ /\ disk.exists
          /\ \E withDistance \in BOOLEAN :
                LET results == EngineSearch(disk.rows, task[t].q, task[t].k,
                                            withDistance)
                IN  Return(t, [task[t] EXCEPT !.rows = results,
                                              !.result = MapResults(results)])
       \/ Return(t, SearchCatch(task[t]))
    /\ UNCHANGED <<moduleOK, lancedb, lancedbLoadError, vectordbAvailable,
                   useInMemoryStore, db, table, inMemoryStore, disk, calls, connectRaised>>

\* ------------------------------------------------------------ clearStore
clearStore(t) ==
    /\ CanCall(t)
    /\ calls' = calls + 1
    /\ LET r == Begin("clear", <<>>, <<>>, 0)
       IN  IF table # 0 /\ db # 0
           THEN Suspend(t, [r EXCEPT !.pc = "dropping"])
           ELSE Return(t, r)
    /\ UNCHANGED <<moduleOK, lancedb, lancedbLoadError, vectordbAvailable,
                   useInMemoryStore, db, table, inMemoryStore, disk, connectRaised>>

\* db.dropTable settling without `table = null`
DropDoneKeepsHandle(t) ==
    /\ task[t].pc = "dropping"
    /\ \/ /\ disk.exists
          /\ disk' = NoTable
          /\ Return(t, [task[t] EXCEPT !.rows = disk.rows])
          /\ UNCHANGED table
       \/ /\ Return(t, [task[t] EXCEPT !.fail = "drop"])
          /\ UNCHANGED <<disk, table>>
    /\ UNCHANGED <<moduleOK, lancedb, lancedbLoadError, vectordbAvailable,
                   useInMemoryStore, db, inMemoryStore, calls, connectRaised>>

\* db.dropTable settles (the call's record keeps the rows it dropped); a
\* failure is logged
DropDone(t) ==
    /\ task[t].pc = "dropping"
    /\ \/ /\ disk.exists
          /\ disk' = NoTable
          /\ table' = 0
          /\ Return(t, [task[t] EXCEPT !.rows = disk.rows])
       \/ /\ Return(t, [task[t] EXCEPT !.fail = "drop"])
          /\ UNCHANGED <<disk, table>>
    /\ UNCHANGED <<moduleOK, lancedb, lancedbLoadError, vectordbAvailable,
                   useInMemoryStore, db, inMemoryStore, calls, connectRaised>>

\* --------------------------------------------------------- specification
Next ==
    \E t \in Tasks :
        \/ initVectorStore(t)
        \/ ImportDone(t)
        \/ AfterLoad(t)
        \/ ConnectDone(t)
        \/ ListDone(t)
        \/ OpenDone(t)
        \/ \E documents \in Batches : addDocuments(t, documents)
        \/ AddAfterInit(t)
        \/ CreateDone(t)
        \/ AddDone(t)
        \/ \E q \in Queries, k \in TopKs : search(t, q, k)
        \/ SearchDone(t)
        \/ clearStore(t)
        \/ DropDone(t)

Spec == Init /\ [][Next]_vars

TypeOK ==
    /\ db \in 0..MaxCalls
    /\ table \in 0..MaxCalls
    /\ useInMemoryStore \in BOOLEAN
    /\ Len(inMemoryStore) <= MaxLen + 2

Returned(op) == ret.pc = "returned" /\ ret.op = op

Contains(store, d) == \E i \in 1..Len(store) : store[i] = d

\* ------------------------------------------- the in-memory search alone
\* a store in InMemory mode (the engine module failed to load) holding any
\* documents with these embeddings, searched with any of these arguments
MemEmbeddings == {<<1, 0>>, <<2, 0>>, <<1, 1>>, <<-1, 0>>}

MemDocs == {Doc(i, e) : i \in {1, 2}, e \in MemEmbeddings}

MemQueries == {<<1, 0>>, <<0, 1>>, <<0, 0>>, <<1>>}

MemTopKs == (-2)..(MaxLen + 1)

InitSearch ==
    /\ moduleOK = FALSE
    /\ lancedb = FALSE
    /\ lancedbLoadError = TRUE
    /\ vectordbAvailable = FALSE
    /\ useInMemoryStore = TRUE
    /\ db = 0
    /\ table = 0
    /\ inMemoryStore \in SeqsUpTo(MemDocs, MaxLen)
    /\ disk = NoTable
    /\ task = [t \in Tasks |-> Idle]
    /\ ret = NoRet
    /\ calls = MaxCalls - 1       \* the calls that filled the store
    /\ connectRaised = FALSE
    /\ ServerStart

NextSearch == \E t \in Tasks, q \in MemQueries, k \in MemTopKs : search(t, q, k)

SpecSearch == InitSearch /\ [][NextSearch]_vars

\* ------------------------------------------------------ the scorer alone
\* a store in InMemory mode holding one document, searched with one query:
\* vectors of every length up to MaxDim, of small, zero and large components
\* (the square of LargeComponent overflows)
MaxDim == 2

LargeComponent == 3

ScorerVectors == SeqsUpTo({-1, 0, 1, LargeComponent}, MaxDim)

InitScorer ==
    /\ moduleOK = FALSE
    /\ lancedb = FALSE
    /\ lancedbLoadError = TRUE
    /\ vectordbAvailable = FALSE
    /\ useInMemoryStore = TRUE
    /\ db = 0
    /\ table = 0
    /\ inMemoryStore \in {<<Doc(1, e)>> : e \in ScorerVectors}
    /\ disk = NoTable
    /\ task = [t \in Tasks |-> Idle]
    /\ ret = NoRet
    /\ calls = MaxCalls - 1
    /\ connectRaised = FALSE
    /\ ServerStart

NextScorer == \E t \in Tasks, q \in ScorerVectors : search(t, q, 1)

SpecScorer == InitScorer /\ [][NextScorer]_vars

\* ----------------------------------------------------- the HTTP handlers
\* requests received in all
MaxRequests == 4

\* message texts of POST /api/chat ("" = missing) and the model's reply
Messages == {"", "a", "b"}

Replies == {"x"}

\* session ids in request bodies (0 = missing)
BodySids == {0} \cup SessionIds

Entry(role, content) == [role |-> role, content |-> content]

\* getClient() returns an object: createClient was assigned and not reset
HasClient == client \in {"connecting", "ready"}

\* JSON.stringify / JSON.parse of a list of {role, content} with string
\* fields gives the list back; a missing key reads as null, hence []
Stored(sid) == sessions[sid]

ReqFree(r) ==
    /\ req[r].op = "idle"
    /\ reqs < MaxRequests
    /\ \A u \in Reqs : u < r => req[u].op # "idle"

\* res.json / res.status(..).json: the request is over
Respond(r, rs) ==
    /\ req' = [req EXCEPT ![r] = NoReq]
    /\ resp' = rs
    /\ UNCHANGED bootVars

\* the handler awaits
Await(r, rec) ==
    /\ req' = [req EXCEPT ![r] = rec]
    /\ resp' = NoResp
    /\ UNCHANGED bootVars

Answer(rec, status) ==
    [NoResp EXCEPT !.op = rec.op, !.status = status, !.sid = rec.sid, !.rc = rec.rc]

\* initRedis up to `await client.connect()`, or its else branch
initRedis ==
    /\ client = "unset"
    /\ \E hasUrl \in BOOLEAN : client' = IF hasUrl THEN "connecting" ELSE "null"
    /\ resp' = NoResp
    /\ UNCHANGED <<sessions, req, reqs, log, cleared, bootVars, storeVars>>

\* client.connect() settles; on failure `client = null`
RedisConnectDone ==
    /\ client = "connecting"
    /\ client' \in {"ready", "null"}
    /\ resp' = NoResp
    /\ UNCHANGED <<sessions, req, reqs, log, cleared, bootVars, storeVars>>

\* POST /api/chat: validation, then `await generateEmbeddings(message)`
ChatHandler(r, sid, msg) ==
    /\ reqs' = reqs + 1
    /\ LET rec == [NoReq EXCEPT !.op = "chat", !.sid = sid, !.msg = msg]
       IN  IF sid = 0 \/ msg = ""
           THEN Respond(r, Answer(rec, 400))
           ELSE Await(r, [rec EXCEPT !.pc = "context"])
    /\ UNCHANGED <<client, sessions, log, cleared, storeVars>>

\* server.ts: the route handler runs as the request arrives
postChat(r, sid, msg) == ReqFree(r) /\ ChatHandler(r, sid, msg)

\* the embedding and the search have settled (neither throws, neither
\* touches a session); getClient(), then `await redisClient.get`
ChatContextDone(r) ==
    /\ req[r].pc = "context"
    /\ Await(r, IF HasClient THEN [req[r] EXCEPT !.pc = "getting", !.rc = TRUE]
                ELSE [req[r] EXCEPT !.pc = "sending"])
    /\ UNCHANGED <<client, sessions, reqs, log, cleared, storeVars>>

\* redisClient.get settles; then startChat and `await chat.sendMessage`
ChatGetDone(r) ==
    /\ req[r].op = "chat"
    /\ req[r].pc = "getting"
    /\ \/ /\ client = "ready"
          /\ Await(r, [req[r] EXCEPT !.pc = "sending", !.history = Stored(req[r].sid)])
       \/ Respond(r, Answer(req[r], 500))
    /\ UNCHANGED <<client, sessions, reqs, log, cleared, storeVars>>

\* the turn is on record: a chat that began after the last DELETE ends the
\* cleared period
Completed(rec, newHistory) ==
    /\ log' = [log EXCEPT ![rec.sid] = @ \o SubSeq(newHistory, Len(newHistory) - 1,
                                                   Len(newHistory))]
    /\ cleared' = [cleared EXCEPT ![rec.sid] = @ /\ rec.stale]

\* the chat handler storing the user's message before the model is asked:
\* a throwing sendMessage leaves it in the session
ChatSendDoneSavesFirst(r) ==
    /\ req[r].pc = "sending"
    /\ \/ /\ \E reply \in Replies :
               LET newHistory == req[r].history
                                   \o <<Entry("user", req[r].msg), Entry("assistant", reply)>>
               IN  IF req[r].rc
                   THEN /\ Await(r, [req[r] EXCEPT !.pc = "setting", !.history = newHistory])
                        /\ UNCHANGED <<log, cleared>>
                   ELSE /\ Respond(r, [Answer(req[r], 200) EXCEPT !.given = req[r].history])
                        /\ Completed(req[r], newHistory)
          /\ UNCHANGED sessions
       \/ /\ Respond(r, Answer(req[r], 500))
          /\ sessions' = [sessions EXCEPT ![req[r].sid] =
                             IF req[r].rc THEN req[r].history \o <<Entry("user", req[r].msg)>>
                             ELSE @]
          /\ UNCHANGED <<log, cleared>>
    /\ UNCHANGED <<client, reqs, storeVars>>

\* sendMessage settles: newHistory = [...history, user, assistant]; with a
\* client `await redisClient.set`, without one the answer is sent
ChatSendDone(r) ==
    /\ req[r].pc = "sending"
    /\ \/ \E reply \in Replies :
            LET newHistory == req[r].history
                                \o <<Entry("user", req[r].msg), Entry("assistant", reply)>>
            IN  IF req[r].rc
                THEN /\ Await(r, [req[r] EXCEPT !.pc = "setting", !.history = newHistory])
                     /\ UNCHANGED <<log, cleared>>
                ELSE /\ Respond(r, [Answer(req[r], 200) EXCEPT !.given = req[r].history])
                     /\ Completed(req[r], newHistory)
       \/ /\ Respond(r, Answer(req[r], 500))
          /\ UNCHANGED <<log, cleared>>
    /\ UNCHANGED <<client, sessions, reqs, storeVars>>

\* redisClient.set settles and the answer is sent
ChatSetDone(r) ==
    /\ req[r].pc = "setting"
    /\ \/ /\ client = "ready"
          /\ sessions' = [sessions EXCEPT ![req[r].sid] = req[r].history]
          /\ Respond(r, [Answer(req[r], 200) EXCEPT
                            !.given = SubSeq(req[r].history, 1, Len(req[r].history) - 2)])
          /\ Completed(req[r], req[r].history)
       \/ /\ Respond(r, Answer(req[r], 500))
          /\ UNCHANGED <<sessions, log, cleared>>
    /\ UNCHANGED <<client, reqs, storeVars>>

\* GET /api/history/:sessionId: [] without a client, else `await get`
HistoryHandler(r, sid) ==
    /\ reqs' = reqs + 1
    /\ LET rec == [NoReq EXCEPT !.op = "history", !.sid = sid, !.rc = HasClient]
       IN  IF ~HasClient
           THEN Respond(r, Answer(rec, 200))
           ELSE Await(r, [rec EXCEPT !.pc = "getting"])
    /\ UNCHANGED <<client, sessions, log, cleared, storeVars>>

getHistory(r, sid) == ReqFree(r) /\ HistoryHandler(r, sid)

\* the get settles; nothing catches a rejection here, so no response is sent
\* (status 0)
HistoryGetDone(r) ==
    /\ req[r].op = "history"
    /\ req[r].pc = "getting"
    /\ \/ /\ client = "ready"
          /\ Respond(r, [Answer(req[r], 200) EXCEPT !.history = Stored(req[r].sid)])
       \/ Respond(r, Answer(req[r], 0))
    /\ UNCHANGED <<client, sessions, reqs, log, cleared, storeVars>>

\* 'Session cleared' is sent: the chats of the session still in flight began
\* before it
SessionCleared(r, rec) ==
    /\ req' = [u \in Reqs |->
                 IF u = r THEN NoReq
                 ELSE IF req[u].op = "chat" /\ req[u].sid = rec.sid
                      THEN [req[u] EXCEPT !.stale = TRUE]
                 ELSE req[u]]
    /\ resp' = Answer(rec, 200)
    /\ UNCHANGED bootVars
    /\ log' = [log EXCEPT ![rec.sid] = <<>>]
    /\ cleared' = [cleared EXCEPT ![rec.sid] = TRUE]

\* DELETE /api/session/:sessionId: with a client `await del`
DeleteHandler(r, sid) ==
    /\ reqs' = reqs + 1
    /\ LET rec == [NoReq EXCEPT !.op = "delete", !.sid = sid, !.rc = HasClient]
       IN  IF HasClient
           THEN /\ Await(r, [rec EXCEPT !.pc = "deleting"])
                /\ UNCHANGED <<log, cleared>>
           ELSE SessionCleared(r, rec)
    /\ UNCHANGED <<client, sessions, storeVars>>

deleteSession(r, sid) == ReqFree(r) /\ DeleteHandler(r, sid)

\* the del settles; a rejection is not caught (no response, status 0)
DelDone(r) ==
    /\ req[r].pc = "deleting"
    /\ \/ /\ client = "ready"
          /\ sessions' = [sessions EXCEPT ![req[r].sid] = <<>>]
          /\ SessionCleared(r, req[r])
       \/ /\ Respond(r, Answer(req[r], 0))
          /\ UNCHANGED <<sessions, log, cleared>>
    /\ UNCHANGED <<client, reqs, storeVars>>

\* the store untouched (its module loaded, nothing called yet) and the
\* server as its process starts
InitServer ==
    /\ moduleOK = TRUE
    /\ lancedb = FALSE
    /\ lancedbLoadError = FALSE
    /\ vectordbAvailable = FALSE
    /\ useInMemoryStore = FALSE
    /\ db = 0
    /\ table = 0
    /\ inMemoryStore = <<>>
    /\ disk = NoTable
    /\ task = [t \in Tasks |-> Idle]
    /\ ret = NoRet
    /\ calls = 0
    /\ connectRaised = FALSE
    /\ ServerStart

NextServer ==
    \/ initRedis
    \/ RedisConnectDone
    \/ \E r \in Reqs :
          \/ \E sid \in BodySids, msg \in Messages : postChat(r, sid, msg)
          \/ ChatContextDone(r)
          \/ ChatGetDone(r)
          \/ ChatSendDone(r)
          \/ ChatSetDone(r)
          \/ \E sid \in SessionIds : getHistory(r, sid)
          \/ HistoryGetDone(r)
          \/ \E sid \in SessionIds : deleteSession(r, sid)
          \/ DelDone(r)

SpecServer == InitServer /\ [][NextServer]_vars

\* ------------------------------------- part_002: lazy initialization
\* a request in the middleware `await initializeSystem(); next()`
InMiddleware(pc) == [NoReq EXCEPT !.op = "mw", !.pc = pc]

Arrivals == reqs + Cardinality({u \in Reqs : req[u].op = "mw"})

\* the middleware calls initializeSystem without the line `isInitialized =
\* true`
ArriveNoFlag(r) ==
    /\ req[r].op = "idle"
    /\ Arrivals < MaxRequests
    /\ \A u \in Reqs : u < r => req[u].op # "idle"
    /\ resp' = NoResp
    /\ IF isInitialized
       THEN /\ req' = [req EXCEPT ![r] = InMiddleware("next")]
            /\ UNCHANGED <<client, bootVars>>
       ELSE /\ req' = [req EXCEPT ![r] = InMiddleware("init")]
            /\ bodies' = bodies + 1
            /\ boot' = "redis"
            /\ \E hasUrl \in BOOLEAN : client' = IF hasUrl THEN "connecting" ELSE "null"
            /\ UNCHANGED isInitialized
    /\ UNCHANGED <<sessions, reqs, log, cleared, storeVars>>

\* a request arrives and the middleware calls initializeSystem: with the flag
\* set it returns at once; otherwise it sets the flag and runs its body up
\* to `await initRedis()`, that is up to `await client.connect()`
Arrive(r) ==
    /\ req[r].op = "idle"
    /\ Arrivals < MaxRequests
    /\ \A u \in Reqs : u < r => req[u].op # "idle"
    /\ resp' = NoResp
    /\ IF isInitialized
       THEN /\ req' = [req EXCEPT ![r] = InMiddleware("next")]
            /\ UNCHANGED <<client, bootVars>>
       ELSE /\ req' = [req EXCEPT ![r] = InMiddleware("init")]
            /\ isInitialized' = TRUE
            /\ bodies' = bodies + 1
            /\ boot' = "redis"
            /\ \E hasUrl \in BOOLEAN : client' = IF hasUrl THEN "connecting" ELSE "null"
    /\ UNCHANGED <<sessions, reqs, log, cleared, storeVars>>

\* initRedis settles (the connect, if one was started); initVectorStore is
\* called
BootRedisDone ==
    /\ boot = "redis"
    /\ IF client = "connecting" THEN client' \in {"ready", "null"}
       ELSE UNCHANGED client
    /\ boot' = "store"
    /\ resp' = NoResp
    /\ UNCHANGED <<sessions, req, reqs, log, cleared, isInitialized, bodies, storeVars>>

\* initVectorStore settles (it never throws); ingestNews is called
BootStoreDone ==
    /\ boot = "store"
    /\ boot' = "ingest"
    /\ resp' = NoResp
    /\ UNCHANGED <<client, sessions, req, reqs, log, cleared, isInitialized, bodies,
                   storeVars>>

\* the ingestion, the embeddings and the addDocuments calls have settled
\* (errors are caught): initializeSystem returns to the middleware that ran it
BootIngestDone ==
    /\ boot = "ingest"
    /\ boot' = "done"
    /\ req' = [u \in Reqs |-> IF req[u].pc = "init" THEN InMiddleware("next") ELSE req[u]]
    /\ resp' = NoResp
    /\ UNCHANGED <<client, sessions, reqs, log, cleared, isInitialized, bodies, storeVars>>

\* next(): the route handler of the request runs
Passed(r) == req[r].op = "mw" /\ req[r].pc = "next"

nextChat(r, sid, msg) == Passed(r) /\ ChatHandler(r, sid, msg)

nextHistory(r, sid) == Passed(r) /\ HistoryHandler(r, sid)

nextDelete(r, sid) == Passed(r) /\ DeleteHandler(r, sid)

NextLazy ==
    \/ BootRedisDone
    \/ BootStoreDone
    \/ BootIngestDone
    \/ \E r \in Reqs :
          \/ Arrive(r)
          \/ \E sid \in BodySids, msg \in Messages : nextChat(r, sid, msg)
          \/ ChatContextDone(r)
          \/ ChatGetDone(r)
          \/ ChatSendDone(r)
          \/ ChatSetDone(r)
          \/ \E sid \in SessionIds : nextHistory(r, sid)
          \/ HistoryGetDone(r)
          \/ \E sid \in SessionIds : nextDelete(r, sid)
          \/ DelDone(r)

SpecLazy == InitServer /\ [][NextLazy]_vars

\* --------------------------------------------------------------- claims

\* C1: a failed persistent add is never lost: when addDocuments was routed to
\* the persistent engine and createTable / table.add threw, the call returns
\* with the store in InMemory mode and every document of the batch in the
\* in-memory store.
C1_FailedAddFallsBack ==
    (Returned("add") /\ ret.fail \in {"create", "add"}) =>
        /\ Mode = "InMemory"
        /\ \A i \in 1..Len(ret.docs) : Contains(inMemoryStore, ret.docs[i])

\* C2: once the store is in InMemory mode it never leaves it: no step takes
\* useInMemoryStore from true to false, overlapping initVectorStore calls
\* included.
C2_NeverBackToPersistent == [][useInMemoryStore => useInMemoryStore']_vars

\* C3: initVectorStore never fails: it returns normally; when a step of the
\* call failed (module unavailable, connect, tableNames, openTable) it leaves
\* the store in InMemory mode, and when no step failed in Persistent mode.
C3_InitNeverFails ==
    Returned("init") =>
        /\ ~ret.raised
        /\ ret.fail # "none" => Mode = "InMemory"
        /\ ret.fail = "none" => Mode = "Persistent"

\* C4: search never propagates a backend failure: every search call returns
\* normally with a list, and the empty list when the engine's query threw.
C4_SearchNeverRaises ==
    Returned("search") =>
        /\ ~ret.raised
        /\ ret.result \in Seq([id : {1, 2}, score : [dot : Int, nn : Nat]])
        /\ ret.fail = "search" => ret.result = <<>>

C4_Witness == Returned("search") /\ ret.fail = "search" /\ Len(disk.rows) > 0

NonZero(v) == \E i \in 1..Len(v) : v[i] # 0

C6_ClearDiscardsAll ==
    (Returned("clear") /\ ret.fail = "none") =>
        /\ Mode = "InMemory" => inMemoryStore = <<>>
        /\ Mode = "Persistent" => table = 0

\* C7: a second initVectorStore after a successful one is idempotent: a call
\* that began with no other call in flight and the store in Persistent mode
\* never calls the engine's connect (so db and table keep their handles).
C7_SecondInitIdempotent ==
    \A t \in Tasks :
        (task[t].op = "init" /\ task[t].alone /\ task[t].mode0 = "Persistent") =>
            task[t].pc # "connecting"

\* C8: in the persistent search path a returned row scores 1 - d whenever the
\* engine gave a distance d for it (d = 0 included, which scores 1), and 0
\* only when no distance is present.
C8_ScoreIsOneMinusDistance ==
    (Returned("search") /\ ret.fail = "none") =>
        \A i \in 1..Len(ret.rows) :
            ret.result[i].score =
                IF ret.rows[i].distance = NoDistance THEN ZeroScore
                ELSE Score(1 - ret.rows[i].distance, 1)

\* a search answered by the in-memory backend has just returned
ReturnedInMemory == Returned("search") /\ ret.mode0 = "InMemory"

NonIncreasing(res) ==
    \A i \in 1..Len(res) : \A j \in i..Len(res) : ~ScoreLess(res[i].score, res[j].score)

\* C9 as stated: for every stored D, every query and every topK, in-memory
\* search returns results in non-increasing score order with
\* length <= topK and length <= |D|.
C9_SortedAndBounded ==
    ReturnedInMemory =>
        /\ NonIncreasing(ret.result)
        /\ Len(ret.result) <= ret.k
        /\ Len(ret.result) <= Len(inMemoryStore)

\* C9 amended: the same for every topK >= 0 (a length is never <= a negative
\* topK); order and length <= |D| hold for every topK.
C9_SortedAndBoundedNonNegative ==
    ReturnedInMemory =>
        /\ NonIncreasing(ret.result)
        /\ ret.k >= 0 => Len(ret.result) <= ret.k
        /\ Len(ret.result) <= Len(inMemoryStore)

C9_Witness ==
    /\ ReturnedInMemory
    /\ Len(inMemoryStore) = 3
    /\ ret.k = 2
    /\ Len(ret.result) = 2
    /\ ScoreLess(ret.result[2].score, ret.result[1].score)
    /\ inMemoryStore[1].id = ret.result[2].id
    /\ inMemoryStore[1].id # ret.result[1].id

Min(a, b) == IF a < b THEN a ELSE b

\* the place of the i-th stored document among all of them: behind those that
\* score higher and those that score the same and were inserted earlier
Rank(store, q, i) ==
    1 + Cardinality({j \in 1..Len(store) :
            LET si == cosineSimilarity(q, store[i].embedding)
                sj == cosineSimilarity(q, store[j].embedding)
            IN  ScoreLess(si, sj) \/ (ScoreEq(si, sj) /\ j < i)})

\* C10: for topK >= 0 in-memory search returns exactly min(topK, n) results
\* of a store of n documents, never padded: the documents of rank 1, 2, ...,
\* where equal scores rank in insertion order.
C10_ExactlyMinAndStable ==
    (ReturnedInMemory /\ ret.k >= 0) =>
        /\ Len(ret.result) = Min(ret.k, Len(inMemoryStore))
        /\ \A r \in 1..Len(ret.result) :
              \E i \in 1..Len(inMemoryStore) :
                 /\ Rank(inMemoryStore, ret.q, i) = r
                 /\ ret.result[r].id = inMemoryStore[i].id
                 /\ ScoreEq(ret.result[r].score,
                            cosineSimilarity(ret.q, inMemoryStore[i].embedding))

C10_Witness ==
    /\ ReturnedInMemory
    /\ inMemoryStore = <<Doc(2, <<2, 0>>), Doc(1, <<1, 0>>)>>
    /\ ret.q = <<1, 0>>
    /\ ret.k = DefaultTopK
    /\ Len(ret.result) = 2
    /\ ret.result[1].id = 2
    /\ ret.result[2].id = 1

\* the store as its callers can observe it: mode flags, handles, documents
storeState == <<lancedb, lancedbLoadError, vectordbAvailable, useInMemoryStore, db,
                table, inMemoryStore, disk>>

FreshDeployment ==
    /\ Mode = "Persistent"
    /\ table = 0
    /\ ~disk.exists
    /\ inMemoryStore = <<>>
    /\ \A t \in Tasks : task[t].op # "add"

\* a call of op begins in this step
Begins(op) ==
    /\ calls' = calls + 1
    /\ \/ ret'.op = op /\ ret'.h = calls'
       \/ \E t \in Tasks : task'[t].op = op /\ task'[t].h = calls'

\* C12: on a fresh deployment (the engine connects, no collection exists) a
\* search called before any addDocuments returns the empty list, at once,
\* without raising and without creating a collection or a handle.
C12_FreshSearchIsEmpty ==
    [][(FreshDeployment /\ Begins("search")) =>
          /\ ret'.pc = "returned"
          /\ ret'.result = <<>>
          /\ ~ret'.raised
          /\ disk' = disk
          /\ table' = table]_vars

C12_Witness ==
    /\ Returned("search")
    /\ ret.mode0 = "Persistent"
    /\ FreshDeployment
    /\ ret.result = <<>>
    /\ ~ret.raised

\* the positions at which a call is awaiting the persistent engine
EnginePcs == {"creating", "adding", "searching", "dropping"}

\* C13: operations are routed only to the active backend: in InMemory mode no
\* persistent handle is held (db and table are null) and no addDocuments,
\* search or clearStore calls the engine; in Persistent mode a search returns
\* no document taken from the in-memory store.
C13_RoutedToActiveBackend ==
    [][/\ useInMemoryStore' => db' = 0 /\ table' = 0
       /\ \A t \in Tasks :
             (task[t].pc \notin EnginePcs /\ task'[t].pc \in EnginePcs)
                => ~useInMemoryStore
       /\ (Mode = "Persistent" /\ Begins("search") /\ ret'.pc = "returned")
             => ret'.result = <<>>]_vars

\* C14: in Persistent mode a successful clearStore leaves no collection
\* handle, and the non-empty addDocuments that follows it calls createTable
\* (not table.add); a collection that an addDocuments created holds exactly
\* its batch; and when the engine's drop throws, clearStore returns normally
\* with the handle unchanged.
C14_ClearThenAddRecreates ==
    [][/\ (Returned("clear") /\ ret.mode0 = "Persistent" /\ ret.fail = "none")
             => /\ table = 0
                /\ \A t \in Tasks :
                      (Mode = "Persistent" /\ Begins("add") /\ IsIdle(t)
                         /\ task'[t].op = "add" /\ task'[t].docs # <<>>)
                        => task'[t].pc = "creating"
       /\ \A t \in Tasks :
             (task[t].pc = "creating" /\ IsIdle(t)' /\ ret'.fail = "none")
                => /\ disk' = [exists |-> TRUE, rows |-> task[t].docs]
                   /\ table' # 0
       /\ (ret'.pc = "returned" /\ ret'.op = "clear" /\ ret'.fail = "drop")
             => ~ret'.raised /\ table' = table]_vars

\* a clearStore begun in Persistent mode has dropped a collection with rows
\* and returned, and a further call can follow
C14_Witness ==
    /\ Returned("clear")
    /\ ret.mode0 = "Persistent"
    /\ ret.fail = "none"
    /\ ret.rows # <<>>
    /\ Mode = "Persistent"
    /\ table = 0
    /\ ~disk.exists
    /\ calls < MaxCalls

\* C15: a non-empty addDocuments called while the store is Uninitialized runs
\* initialization first and then stores its batch in the backend that
\* initialization selected: when it returns, the batch is in the in-memory
\* store or in the persistent collection.
C15_LazyInitStoresBatch ==
    (Returned("add") /\ ret.mode0 = "Uninitialized" /\ ret.docs # <<>>) =>
        /\ ret.nested
        /\ \A i \in 1..Len(ret.docs) :
              \/ Contains(inMemoryStore, ret.docs[i])
              \/ disk.exists /\ Contains(disk.rows, ret.docs[i])

\* C16: addDocuments and clearStore are never fatal to their caller: each
\* returns normally in every store mode and for every failure of the engine
\* (createTable, add or dropTable throwing).
C16_AddAndClearNeverRaise ==
    (Returned("add") \/ Returned("clear")) => ~ret.raised

\* an addDocuments or clearStore has returned from an engine call that threw
C16_Witness ==
    /\ Returned("add") \/ Returned("clear")
    /\ ret.fail \in {"create", "add", "drop"}
    /\ ~ret.raised

ZeroNorm(v) == \A i \in 1..Len(v) : v[i] = 0

\* C17: cosineSimilarity returns 0, without raising, for every two vectors of
\* different lengths and for every two vectors of which at least one has zero
\* norm (two empty vectors included): the one stored document comes back
\* from the in-memory search with score 0.
C17_ZeroForMismatchOrZeroNorm ==
    (ReturnedInMemory /\ Len(inMemoryStore) = 1 /\ ret.k >= 1) =>
        LET e == inMemoryStore[1].embedding
        IN  /\ ~ret.raised
            /\ Len(ret.result) = 1
            /\ (Len(ret.q) # Len(e) \/ ZeroNorm(ret.q) \/ ZeroNorm(e))
                  => ret.result[1].score = ZeroScore

\* C20: the collection is created at most once under concurrent writes: of
\* two overlapping non-empty addDocuments calls in Persistent mode with no
\* collection, at most one invokes createTable (the other inserts), so that
\* both batches end up in the single collection.
C20_CreateAtMostOnce ==
    Cardinality({t \in Tasks : task[t].op = "add" /\ task[t].pc = "creating"}) <= 1

Responded(op, status) == resp.op = op /\ resp.status = status

\* C18: chat history is stored even without Redis: with no Redis client (no
\* REDIS_URL, or the connect failed), GET /api/history/:sessionId returns the
\* messages exchanged in the session's answered chats, and each chat on the
\* session is given the earlier ones as its history.
C18_HistoryKeptWithoutRedis ==
    (client = "null" /\ ~resp.rc) =>
        /\ Responded("history", 200) => resp.history = log[resp.sid]
        /\ Responded("chat", 200) => resp.given \o SubSeq(log[resp.sid],
                                         Len(log[resp.sid]) - 1, Len(log[resp.sid]))
                                       = log[resp.sid]

\* C19: DELETE /api/session/:sessionId clears the history: from the moment
\* it is answered until a chat request that began after it completes, every
\* GET /api/history/:sessionId returns an empty history, also when a chat on
\* the session was in flight during the DELETE.
C19_DeleteClearsHistory ==
    (Responded("history", 200) /\ cleared[resp.sid]) => resp.history = <<>>

\* a step of a search call: it begins, or a search in flight moves on
SearchStep ==
    \/ Begins("search")
    \/ \E t \in Tasks : task[t].op = "search" /\ task'[t] # task[t]

\* what a search with these arguments returns from the store as it is
SearchOutcomes(q, k) ==
    IF useInMemoryStore \/ table = 0
    THEN {SearchInMemory(inMemoryStore, q, k)}
    ELSE {<<>>} \cup {MapResults(EngineSearch(disk.rows, q, k, w)) : w \in BOOLEAN}

\* C21: search is read-only: no step of a search call changes the mode, the
\* connection or collection handle, the in-memory documents or their order
\* (nor the collection); so a search that returns, other searches in flight
\* or not, returns what the store as it is gives for its arguments.
C21_SearchIsReadOnly ==
    [][SearchStep =>
          /\ storeState' = storeState
          /\ (ret'.pc = "returned" /\ ret'.op = "search" /\ ret'.mode0 = Mode)
                => \/ ret'.result \in SearchOutcomes(ret'.q, ret'.k)
                   \/ ret'.result = <<>>]_vars

\* a search has returned documents while another search is in flight
C21_Witness ==
    /\ Returned("search")
    /\ ret.result # <<>>
    /\ \E t \in Tasks : task[t].op = "search" /\ task[t].pc = "searching"

\* an addDocuments returns from its in-memory branch in this step
InMemoryAddReturns ==
    /\ ret'.pc = "returned"
    /\ ret'.op = "add"
    /\ useInMemoryStore \/ db = 0
    /\ \A t \in Tasks : task[t].pc \in EnginePcs => task'[t] = task[t]

\* C22: the in-memory addDocuments appends without deduplication: the store
\* grows by exactly the batch length, the rows it held keep their content
\* and position, and every document of the batch is a new row at the end,
\* one whose id is already stored included.
C22_AppendsWithoutDedup ==
    [][InMemoryAddReturns =>
          /\ Len(inMemoryStore') = Len(inMemoryStore) + Len(ret'.docs)
          /\ \A i \in 1..Len(inMemoryStore) : inMemoryStore'[i] = inMemoryStore[i]
          /\ \A j \in 1..Len(ret'.docs) :
                inMemoryStore'[Len(inMemoryStore) + j] = ret'.docs[j]]_vars

\* an in-memory add has returned and its document's id is stored twice
C22_Witness ==
    /\ Returned("add")
    /\ Mode = "InMemory"
    /\ ret.docs # <<>>
    /\ LET n == Len(inMemoryStore)
       IN  /\ n >= 2
           /\ inMemoryStore[n] = ret.docs[Len(ret.docs)]
           /\ \E i \in 1..(n - 1) : inMemoryStore[i].id = inMemoryStore[n].id

\* C23: system initialization runs at most once per process: whatever
\* requests arrive and however they interleave, the body of initializeSystem
\* is entered by exactly one of them (the first), and by no other.
C23_InitializesOnce ==
    /\ bodies <= 1
    /\ isInitialized <=> bodies = 1
    /\ (reqs > 0 \/ \E r \in Reqs : req[r].op # "idle") => bodies = 1
    /\ Cardinality({r \in Reqs : req[r].pc = "init"}) <= 1

\* a second request has arrived while the first one's initialization runs
C23_Witness ==
    /\ bodies = 1
    /\ boot \in {"redis", "store", "ingest"}
    /\ \E r, u \in Reqs : r # u /\ req[r].pc = "init" /\ req[u].op # "idle"

\* a route handler starts, or the search of a chat request is performed
HandlerRuns ==
    \/ reqs' = reqs + 1
    \/ \E r \in Reqs : req[r].pc = "context" /\ req'[r].pc # "context"

\* C24: initialization happens before request handling: no route handler
\* (nor the search POST /api/chat performs) runs until initializeSystem has
\* completed, also for a request that arrives while the first request's
\* initialization is in progress.
C24_InitBeforeHandlers == [][HandlerRuns => boot = "done"]_vars

\* the last two entries of a history: one request's turn
Turn(h) == SubSeq(h, Len(h) - 1, Len(h))

\* C25: no chat turn is lost: with Redis available and no DELETE, every
\* POST /api/chat answered 200 leaves the stored history of its session two
\* entries longer than it was, its user and its assistant entry appended (so
\* that n such requests leave exactly 2n entries), overlapping requests
\* included.
C25_NoTurnLost ==
    [][\A r \in Reqs :
          (req[r].pc = "setting" /\ ~req[r].stale /\ req'[r].op = "idle"
             /\ resp'.op = "chat" /\ resp'.status = 200)
            => sessions'[req[r].sid] = sessions[req[r].sid] \o Turn(req[r].history)]_vars

\* C26: a failed chat request leaves the session unchanged: POST /api/chat
\* without sessionId or message is answered 400 at once (and only such a
\* request is); a request whose history read throws, or whose call of the
\* language model throws, is answered 500; and no step of a request up to
\* such an answer, the answer included, changes the stored history.
C26_FailedChatChangesNothing ==
    [][\A r \in Reqs :
          /\ (reqs' = reqs + 1 /\ resp'.op = "chat")
                => resp'.status = 400 /\ sessions' = sessions
          /\ (reqs' = reqs + 1 /\ req'[r].op = "chat" /\ req[r].op # "chat")
                => req'[r].sid # 0 /\ req'[r].msg # ""
          /\ (req[r].op = "chat" /\ req[r].pc \in {"context", "getting", "sending"}
                /\ req'[r].pc # req[r].pc)
                => /\ sessions' = sessions
                   /\ req'[r].op = "idle" =>
                         /\ resp'.op = "chat"
                         /\ resp'.status = IF req[r].pc = "sending" /\ ~req[r].rc
                                              /\ resp'.status = 200
                                           THEN 200 ELSE 500]_vars

\* a chat request on a session with stored history was answered 500 and the
\* history is still there
C26_Witness ==
    /\ Responded("chat", 500)
    /\ resp.rc
    /\ sessions[resp.sid] # <<>>

====
